---- MODULE Spec2Model ----
(***************************************************************************)
(* A model of the MPSC channel of src/lib.rs: a mutex-guarded queue and a  *)
(* live-sender counter (ChannelCtx), a condition variable (Shared.cond),   *)
(* any number of Sender handles and one Receiver with a private buffer.    *)
(*                                                                         *)
(* Every Sender handle is driven by one thread at a time (send takes       *)
(* &mut self, drop takes the handle by value), so a handle is also the     *)
(* identity of the thread operating on it.  The Receiver is driven by the  *)
(* single consumer thread.  One action is one statement of the source.     *)
(***************************************************************************)
EXTENDS Integers, Sequences, FiniteSets

\* ---------------------------------------------------------------- bounds
\* The number of Sender handles that ever exist (the first plus the clones).
MaxHandles == 2
\* The number of send calls over all handles.
MaxSends == 3
\* The number of recv calls.
MaxRecvs == 4

Handles == 1..MaxHandles

VARIABLES
    queue,      \* ChannelCtx.queue: the shared VecDeque, front first
    n_senders,  \* ChannelCtx.n_senders
    mu,         \* Shared.mu: the thread that holds the mutex, or Free
    hstate,     \* hstate[h]: "none" (not created yet), "live", "dropped"
    pc,         \* pc[h]: the statement the thread of handle h is at
    is_last,    \* is_last[h]: the local is_last_samurai of h's drop
    buff,       \* Receiver.buff: the consumer's private VecDeque
    rpc,        \* the statement the consumer thread is at
    rlive,      \* FALSE once the Receiver has been dropped
    sent,       \* sent[h]: the number of values handle h has pushed
    pushed,     \* history: every pushed value, in push order
    results,    \* history: what the recv calls returned, in call order
    rdrop_at,   \* history: Len(pushed) when the Receiver was dropped
    poisoned    \* Shared.mu is poisoned: a thread panicked holding it

vars == <<queue, n_senders, mu, hstate, pc, is_last, buff, rpc, rlive,
          sent, pushed, results, rdrop_at, poisoned>>

\* ------------------------------------------------------------ vocabulary
\* The mutex is free, or held by the consumer or by the thread of handle h.
Free == <<>>
RecvThread == <<"recv">>
SenderThread(h) == <<"sender", h>>

\* The last element of a non-empty sequence.
Last(s) == s[Len(s)]

\* Option::None as returned by recv; Some(v) is the value v itself.
None == <<>>

\* The k-th value sent through handle h.  The element type T is opaque to
\* the channel, so a value is identified by who sent it and when.
Msg(h, k) == <<h, k>>

\* Condvar::notify_one: wakes the consumer if it is blocked in wait, and
\* is lost otherwise.  The woken consumer still has to re-acquire the mutex.
NotifyOne(r) == IF r = "wait" THEN "woken" ELSE r

\* n_senders += 1 and n_senders -= 1.  n_senders is a u32; with at most
\* MaxHandles handles the increment stays far below 2^32, and the decrement
\* never starts from 0 (CountAccounting below), so neither wraps here.
Incr(n) == n + 1
Decr(n) == n - 1

\* ------------------------------------------------------------------ Init
\* Mutation of Init: channel() does not count the Sender it returns.
InitUncounted ==
    /\ queue = <<>>
    /\ n_senders = 0
    /\ mu = Free
    /\ hstate = [h \in Handles |-> IF h = 1 THEN "live" ELSE "none"]
    /\ pc = [h \in Handles |-> "idle"]
    /\ is_last = [h \in Handles |-> FALSE]
    /\ buff = <<>>
    /\ rpc = "idle"
    /\ rlive = TRUE
    /\ sent = [h \in Handles |-> 0]
    /\ pushed = <<>>
    /\ results = <<>>
    /\ rdrop_at = 0
    /\ poisoned = FALSE

\* channel(): empty queue, n_senders = 1, one Sender and one Receiver.
Init ==
    /\ queue = <<>>
    /\ n_senders = 1
    /\ mu = Free
    /\ hstate = [h \in Handles |-> IF h = 1 THEN "live" ELSE "none"]
    /\ pc = [h \in Handles |-> "idle"]
    /\ is_last = [h \in Handles |-> FALSE]
    /\ buff = <<>>
    /\ rpc = "idle"
    /\ rlive = TRUE
    /\ sent = [h \in Handles |-> 0]
    /\ pushed = <<>>
    /\ results = <<>>
    /\ rdrop_at = 0
    /\ poisoned = FALSE

\* A handle on which its owner can start an operation.
Usable(h) == hstate[h] = "live" /\ pc[h] = "idle"

\* Sends started so far: the pushes done and the sends holding the lock
\* in front of their push.
SendsStarted == Len(pushed) + Cardinality({h \in Handles : pc[h] = "send_push"})

\* Handles that exist or are about to: a clone past its lock owes one.
ClonePcs == {"clone_inc", "clone_unlock", "clone_ret"}
HandlesClaimed ==
    Cardinality({h \in Handles : hstate[h] # "none"})
        + Cardinality({h \in Handles : pc[h] \in ClonePcs})

\* ---------------------------------------------------------- Sender::send
\* let mut ctx = self.shared.mu.lock().unwrap();  The call and the lock are
\* one step: a send that waits for the mutex is a send that has not taken
\* this step yet.  On a poisoned mutex the unwrap panics (SendPoisoned).
SendLock(h) ==
    /\ Usable(h)
    /\ SendsStarted < MaxSends
    /\ mu = Free
    /\ ~poisoned
    /\ mu' = SenderThread(h)
    /\ pc' = [pc EXCEPT ![h] = "send_push"]
    /\ UNCHANGED <<queue, n_senders, hstate, is_last, buff, rpc, rlive,
                   sent, pushed, results, rdrop_at, poisoned>>

\* Mutation of SendPush: push_front in place of push_back.
SendPushFront(h) ==
    /\ pc[h] = "send_push"
    /\ queue' = <<Msg(h, sent[h] + 1)>> \o queue
    /\ pushed' = Append(pushed, Msg(h, sent[h] + 1))
    /\ sent' = [sent EXCEPT ![h] = @ + 1]
    /\ pc' = [pc EXCEPT ![h] = "send_unlock"]
    /\ UNCHANGED <<n_senders, mu, hstate, is_last, buff, rpc, rlive,
                   results, rdrop_at, poisoned>>

\* ctx.queue.push_back(value);
SendPush(h) ==
    /\ pc[h] = "send_push"
    /\ queue' = Append(queue, Msg(h, sent[h] + 1))
    /\ pushed' = Append(pushed, Msg(h, sent[h] + 1))
    /\ sent' = [sent EXCEPT ![h] = @ + 1]
    /\ pc' = [pc EXCEPT ![h] = "send_unlock"]
    /\ UNCHANGED <<n_senders, mu, hstate, is_last, buff, rpc, rlive,
                   results, rdrop_at, poisoned>>

\* drop(ctx);
SendUnlock(h) ==
    /\ pc[h] = "send_unlock"
    /\ mu' = Free
    /\ pc' = [pc EXCEPT ![h] = "send_notify"]
    /\ UNCHANGED <<queue, n_senders, hstate, is_last, buff, rpc, rlive,
                   sent, pushed, results, rdrop_at, poisoned>>

\* Mutation of SendNotify: the notify_one is left out.
SendNoNotify(h) ==
    /\ pc[h] = "send_notify"
    /\ pc' = [pc EXCEPT ![h] = "idle"]
    /\ UNCHANGED <<queue, n_senders, mu, hstate, is_last, buff, rpc, rlive,
                   sent, pushed, results, rdrop_at, poisoned>>

\* Mutation of SendNotify: the send hands over to a waiting consumer only.
SendNotifyRendezvous(h) ==
    /\ pc[h] = "send_notify"
    /\ rpc = "wait"
    /\ rpc' = "woken"
    /\ pc' = [pc EXCEPT ![h] = "idle"]
    /\ UNCHANGED <<queue, n_senders, mu, hstate, is_last, buff, rlive,
                   sent, pushed, results, rdrop_at, poisoned>>

\* self.shared.cond.notify_one();
SendNotify(h) ==
    /\ pc[h] = "send_notify"
    /\ rpc' = NotifyOne(rpc)
    /\ pc' = [pc EXCEPT ![h] = "idle"]
    /\ UNCHANGED <<queue, n_senders, mu, hstate, is_last, buff, rlive,
                   sent, pushed, results, rdrop_at, poisoned>>

\* --------------------------------------------------------- Sender::clone
\* let mut ctx = self.shared.mu.lock().unwrap();
CloneLock(h) ==
    /\ Usable(h)
    /\ HandlesClaimed < MaxHandles
    /\ mu = Free
    /\ ~poisoned
    /\ mu' = SenderThread(h)
    /\ pc' = [pc EXCEPT ![h] = "clone_inc"]
    /\ UNCHANGED <<queue, n_senders, hstate, is_last, buff, rpc, rlive,
                   sent, pushed, results, rdrop_at, poisoned>>

\* Mutation of CloneInc: the increment is left out.
CloneNoInc(h) ==
    /\ pc[h] = "clone_inc"
    /\ pc' = [pc EXCEPT ![h] = "clone_unlock"]
    /\ UNCHANGED <<queue, n_senders, mu, hstate, is_last, buff, rpc, rlive,
                   sent, pushed, results, rdrop_at, poisoned>>

\* ctx.n_senders += 1;
CloneInc(h) ==
    /\ pc[h] = "clone_inc"
    /\ n_senders' = Incr(n_senders)
    /\ pc' = [pc EXCEPT ![h] = "clone_unlock"]
    /\ UNCHANGED <<queue, mu, hstate, is_last, buff, rpc, rlive,
                   sent, pushed, results, rdrop_at, poisoned>>

\* drop(ctx);
CloneUnlock(h) ==
    /\ pc[h] = "clone_unlock"
    /\ mu' = Free
    /\ pc' = [pc EXCEPT ![h] = "clone_ret"]
    /\ UNCHANGED <<queue, n_senders, hstate, is_last, buff, rpc, rlive,
                   sent, pushed, results, rdrop_at, poisoned>>

\* Self { shared: Arc::clone(&self.shared) }: the new handle exists from
\* here on.  It takes the lowest unused identity.
CloneRet(h) ==
    /\ pc[h] = "clone_ret"
    /\ LET new == CHOOSE n \in Handles :
                      /\ hstate[n] = "none"
                      /\ \A m \in Handles : hstate[m] = "none" => n <= m
       IN  hstate' = [hstate EXCEPT ![new] = "live"]
    /\ pc' = [pc EXCEPT ![h] = "idle"]
    /\ UNCHANGED <<queue, n_senders, mu, is_last, buff, rpc, rlive,
                   sent, pushed, results, rdrop_at, poisoned>>

\* ---------------------------------------------------------- Sender::drop
\* let mut ctx = self.shared.mu.lock().unwrap();
DropLock(h) ==
    /\ Usable(h)
    /\ mu = Free
    /\ ~poisoned
    /\ mu' = SenderThread(h)
    /\ pc' = [pc EXCEPT ![h] = "drop_dec"]
    /\ UNCHANGED <<queue, n_senders, hstate, is_last, buff, rpc, rlive,
                   sent, pushed, results, rdrop_at, poisoned>>

\* ctx.n_senders -= 1; let is_last_samurai = ctx.n_senders == 0;
DropDec(h) ==
    /\ pc[h] = "drop_dec"
    /\ n_senders' = Decr(n_senders)
    /\ is_last' = [is_last EXCEPT ![h] = (n_senders' = 0)]
    /\ pc' = [pc EXCEPT ![h] = "drop_unlock"]
    /\ UNCHANGED <<queue, mu, hstate, buff, rpc, rlive,
                   sent, pushed, results, rdrop_at, poisoned>>

\* Mutation of DropUnlock: the test of is_last_samurai is inverted.
DropUnlockInverted(h) ==
    /\ pc[h] = "drop_unlock"
    /\ mu' = Free
    /\ IF ~is_last[h]
         THEN /\ pc' = [pc EXCEPT ![h] = "drop_notify"]
              /\ hstate' = hstate
         ELSE /\ pc' = [pc EXCEPT ![h] = "idle"]
              /\ hstate' = [hstate EXCEPT ![h] = "dropped"]
    /\ UNCHANGED <<queue, n_senders, is_last, buff, rpc, rlive,
                   sent, pushed, results, rdrop_at, poisoned>>

\* drop(ctx); if is_last_samurai { ... } else the handle is gone.
DropUnlock(h) ==
    /\ pc[h] = "drop_unlock"
    /\ mu' = Free
    /\ IF is_last[h]
         THEN /\ pc' = [pc EXCEPT ![h] = "drop_notify"]
              /\ hstate' = hstate
         ELSE /\ pc' = [pc EXCEPT ![h] = "idle"]
              /\ hstate' = [hstate EXCEPT ![h] = "dropped"]
    /\ UNCHANGED <<queue, n_senders, is_last, buff, rpc, rlive,
                   sent, pushed, results, rdrop_at, poisoned>>

\* Mutation of DropNotify: the last drop does not notify.
DropNoNotify(h) ==
    /\ pc[h] = "drop_notify"
    /\ pc' = [pc EXCEPT ![h] = "idle"]
    /\ hstate' = [hstate EXCEPT ![h] = "dropped"]
    /\ UNCHANGED <<queue, n_senders, mu, is_last, buff, rpc, rlive,
                   sent, pushed, results, rdrop_at, poisoned>>

\* self.shared.cond.notify_one(); and the handle is gone.
DropNotify(h) ==
    /\ pc[h] = "drop_notify"
    /\ rpc' = NotifyOne(rpc)
    /\ pc' = [pc EXCEPT ![h] = "idle"]
    /\ hstate' = [hstate EXCEPT ![h] = "dropped"]
    /\ UNCHANGED <<queue, n_senders, mu, is_last, buff, rlive,
                   sent, pushed, results, rdrop_at, poisoned>>

\* -------------------------------------------------------- Receiver::recv
\* A recv call can start: the Receiver exists and is not inside a call.
CanRecv == rlive /\ rpc = "idle" /\ Len(results) < MaxRecvs

\* Mutation of RecvFast: pop_back in place of pop_front.
RecvFastBack ==
    /\ CanRecv
    /\ buff # <<>>
    /\ results' = Append(results, Last(buff))
    /\ buff' = SubSeq(buff, 1, Len(buff) - 1)
    /\ UNCHANGED <<queue, n_senders, mu, hstate, pc, is_last, rpc, rlive,
                   sent, pushed, rdrop_at, poisoned>>

\* Mutation of RecvFast: the fast path runs only when the mutex is free.
RecvFastLocked ==
    /\ CanRecv
    /\ buff # <<>>
    /\ mu = Free
    /\ results' = Append(results, Head(buff))
    /\ buff' = Tail(buff)
    /\ UNCHANGED <<queue, n_senders, mu, hstate, pc, is_last, rpc, rlive,
                   sent, pushed, rdrop_at, poisoned>>

\* if let Some(value) = self.buff.pop_front() { return Some(value); }
RecvFast ==
    /\ CanRecv
    /\ buff # <<>>
    /\ results' = Append(results, Head(buff))
    /\ buff' = Tail(buff)
    /\ UNCHANGED <<queue, n_senders, mu, hstate, pc, is_last, rpc, rlive,
                   sent, pushed, rdrop_at, poisoned>>

\* Mutation of RecvSlow: recv goes for the lock whatever buff holds.
RecvSlowAlways ==
    /\ CanRecv
    /\ rpc' = "recv_lock"
    /\ UNCHANGED <<queue, n_senders, mu, hstate, pc, is_last, buff, rlive,
                   sent, pushed, results, rdrop_at, poisoned>>

\* self.buff.pop_front() is None: go on to the lock.
RecvSlow ==
    /\ CanRecv
    /\ buff = <<>>
    /\ rpc' = "recv_lock"
    /\ UNCHANGED <<queue, n_senders, mu, hstate, pc, is_last, buff, rlive,
                   sent, pushed, results, rdrop_at, poisoned>>

\* let mut ctx = self.shared.mu.lock().unwrap();
RecvLock ==
    /\ rpc = "recv_lock"
    /\ mu = Free
    /\ ~poisoned
    /\ mu' = RecvThread
    /\ rpc' = "recv_loop"
    /\ UNCHANGED <<queue, n_senders, hstate, pc, is_last, buff, rlive,
                   sent, pushed, results, rdrop_at, poisoned>>

\* Mutation of RecvNone: None on an empty queue, whatever n_senders is.
RecvNoneEager ==
    /\ rpc = "recv_loop"
    /\ queue = <<>>
    /\ results' = Append(results, None)
    /\ mu' = Free
    /\ rpc' = "idle"
    /\ UNCHANGED <<queue, n_senders, hstate, pc, is_last, buff, rlive,
                   sent, pushed, rdrop_at, poisoned>>

\* match ctx.queue.pop_front() { None => if ctx.n_senders == 0 { return None; }
\* The guard goes out of scope: the mutex is released.
RecvNone ==
    /\ rpc = "recv_loop"
    /\ queue = <<>>
    /\ n_senders = 0
    /\ results' = Append(results, None)
    /\ mu' = Free
    /\ rpc' = "idle"
    /\ UNCHANGED <<queue, n_senders, hstate, pc, is_last, buff, rlive,
                   sent, pushed, rdrop_at, poisoned>>

\* Mutation of RecvWait: waits on an empty queue, whatever n_senders is.
RecvWaitAlways ==
    /\ rpc = "recv_loop"
    /\ queue = <<>>
    /\ mu' = Free
    /\ rpc' = "wait"
    /\ UNCHANGED <<queue, n_senders, hstate, pc, is_last, buff, rlive,
                   sent, pushed, results, rdrop_at, poisoned>>

\* Mutation of RecvWait: the wait blocks without releasing the mutex.
RecvWaitHolding ==
    /\ rpc = "recv_loop"
    /\ queue = <<>>
    /\ n_senders # 0
    /\ rpc' = "wait"
    /\ UNCHANGED <<queue, n_senders, mu, hstate, pc, is_last, buff, rlive,
                   sent, pushed, results, rdrop_at, poisoned>>

\* None => ctx = self.shared.cond.wait(ctx).unwrap(): the wait releases
\* the mutex and blocks in one step.
RecvWait ==
    /\ rpc = "recv_loop"
    /\ queue = <<>>
    /\ n_senders # 0
    /\ mu' = Free
    /\ rpc' = "wait"
    /\ UNCHANGED <<queue, n_senders, hstate, pc, is_last, buff, rlive,
                   sent, pushed, results, rdrop_at, poisoned>>

\* Mutation of RecvSome: front() in place of pop_front(), so the returned
\* value stays in the queue that is swapped into the buffer.
RecvSomeKeep ==
    /\ rpc = "recv_loop"
    /\ queue # <<>>
    /\ queue' = buff
    /\ buff' = queue
    /\ results' = Append(results, Head(queue))
    /\ mu' = Free
    /\ rpc' = "idle"
    /\ UNCHANGED <<n_senders, hstate, pc, is_last, rlive,
                   sent, pushed, rdrop_at, poisoned>>

\* Mutation of RecvSome: no batch transfer, the rest stays in the queue.
RecvSomeNoBatch ==
    /\ rpc = "recv_loop"
    /\ queue # <<>>
    /\ queue' = Tail(queue)
    /\ results' = Append(results, Head(queue))
    /\ mu' = Free
    /\ rpc' = "idle"
    /\ UNCHANGED <<n_senders, hstate, pc, is_last, buff, rlive,
                   sent, pushed, rdrop_at, poisoned>>

\* Mutation of RecvSome: pop_back in place of pop_front.
RecvSomeBack ==
    /\ rpc = "recv_loop"
    /\ queue # <<>>
    /\ LET value == Last(queue)
           rest == SubSeq(queue, 1, Len(queue) - 1)
       IN  /\ IF rest # <<>>
                THEN queue' = buff /\ buff' = rest
                ELSE queue' = rest /\ buff' = buff
           /\ results' = Append(results, value)
    /\ mu' = Free
    /\ rpc' = "idle"
    /\ UNCHANGED <<n_senders, hstate, pc, is_last, rlive,
                   sent, pushed, rdrop_at, poisoned>>

\* Mutation of RecvSome: returns Some with the mutex still held.
RecvSomeHolding ==
    /\ rpc = "recv_loop"
    /\ queue # <<>>
    /\ LET value == Head(queue)
           rest == Tail(queue)
       IN  /\ IF rest # <<>>
                THEN queue' = buff /\ buff' = rest
                ELSE queue' = rest /\ buff' = buff
           /\ results' = Append(results, value)
    /\ rpc' = "idle"
    /\ UNCHANGED <<n_senders, mu, hstate, pc, is_last, rlive,
                   sent, pushed, rdrop_at, poisoned>>

\* Some(value) => { if !ctx.queue.is_empty() { swap(&mut ctx.queue,
\* &mut self.buff); } return Some(value); }
RecvSome ==
    /\ rpc = "recv_loop"
    /\ queue # <<>>
    /\ LET value == Head(queue)
           rest == Tail(queue)
       IN  /\ IF rest # <<>>
                THEN queue' = buff /\ buff' = rest
                ELSE queue' = rest /\ buff' = buff
           /\ results' = Append(results, value)
    /\ mu' = Free
    /\ rpc' = "idle"
    /\ UNCHANGED <<n_senders, hstate, pc, is_last, rlive,
                   sent, pushed, rdrop_at, poisoned>>

\* Condvar::wait may return without a notification (a spurious wake-up).
SpuriousWake ==
    /\ rpc = "wait"
    /\ rpc' = "woken"
    /\ UNCHANGED <<queue, n_senders, mu, hstate, pc, is_last, buff, rlive,
                   sent, pushed, results, rdrop_at, poisoned>>

\* Mutation of RecvReacquire: the wait returns into the loop without
\* waiting for the mutex to be free.
RecvReacquireBarging ==
    /\ rpc = "woken"
    /\ ~poisoned
    /\ mu' = RecvThread
    /\ rpc' = "recv_loop"
    /\ UNCHANGED <<queue, n_senders, hstate, pc, is_last, buff, rlive,
                   sent, pushed, results, rdrop_at, poisoned>>

\* The woken wait re-acquires the mutex before it returns into the loop.
RecvReacquire ==
    /\ rpc = "woken"
    /\ mu = Free
    /\ ~poisoned
    /\ mu' = RecvThread
    /\ rpc' = "recv_loop"
    /\ UNCHANGED <<queue, n_senders, hstate, pc, is_last, buff, rlive,
                   sent, pushed, results, rdrop_at, poisoned>>

\* Mutation of DropReceiver: the Receiver's drop takes itself off n_senders.
DropReceiverCounted ==
    /\ rlive
    /\ rpc = "idle"
    /\ rlive' = FALSE
    /\ buff' = <<>>
    /\ rdrop_at' = Len(pushed)
    /\ n_senders' = Decr(n_senders)
    /\ UNCHANGED <<queue, mu, hstate, pc, is_last, rpc,
                   sent, pushed, results, poisoned>>

\* drop(r): Receiver has no Drop impl; its fields are released, buff with
\* whatever it holds.  The shared state lives on through the Senders' Arc.
DropReceiver ==
    /\ rlive
    /\ rpc = "idle"
    /\ rlive' = FALSE
    /\ buff' = <<>>
    /\ rdrop_at' = Len(pushed)
    /\ UNCHANGED <<queue, n_senders, mu, hstate, pc, is_last, rpc,
                   sent, pushed, results, poisoned>>

\* ------------------------------------------------------------------ Next
Next ==
    \/ \E h \in Handles : SendLock(h)
    \/ \E h \in Handles : SendPush(h)
    \/ \E h \in Handles : SendUnlock(h)
    \/ \E h \in Handles : SendNotify(h)
    \/ \E h \in Handles : CloneLock(h)
    \/ \E h \in Handles : CloneInc(h)
    \/ \E h \in Handles : CloneUnlock(h)
    \/ \E h \in Handles : CloneRet(h)
    \/ \E h \in Handles : DropLock(h)
    \/ \E h \in Handles : DropDec(h)
    \/ \E h \in Handles : DropUnlock(h)
    \/ \E h \in Handles : DropNotify(h)
    \/ RecvFast
    \/ RecvSlow
    \/ RecvLock
    \/ RecvNone
    \/ RecvWait
    \/ RecvSome
    \/ SpuriousWake
    \/ RecvReacquire
    \/ DropReceiver

Spec == Init /\ [][Next]_vars

\* ------------------------------------------------------------- poisoning
\* ctx.n_senders += 1 panics on overflow in a build with overflow checks,
\* while the guard is held: the unwinding releases the mutex and poisons
\* it.  The overflow needs n_senders = 2^32 - 1, which is beyond the bounds
\* of this model, so the panic is taken as a fault that may strike any
\* clone at this statement; the caller catches it and keeps its handle.
CloneIncOverflow(h) ==
    /\ pc[h] = "clone_inc"
    /\ poisoned' = TRUE
    /\ mu' = Free
    /\ pc' = [pc EXCEPT ![h] = "idle"]
    /\ UNCHANGED <<queue, n_senders, hstate, is_last, buff, rpc, rlive,
                   sent, pushed, results, rdrop_at>>

\* self.shared.mu.lock().unwrap() of send, clone and drop on a poisoned
\* mutex: lock() returns Err once the mutex is acquired, unwrap panics and
\* the guard inside the error is released.  The thread is gone.
SendPoisoned(h) ==
    /\ Usable(h)
    /\ mu = Free
    /\ poisoned
    /\ pc' = [pc EXCEPT ![h] = "panicked"]
    /\ UNCHANGED <<queue, n_senders, mu, hstate, is_last, buff, rpc, rlive,
                   sent, pushed, results, rdrop_at, poisoned>>

ClonePoisoned(h) ==
    /\ Usable(h)
    /\ mu = Free
    /\ poisoned
    /\ pc' = [pc EXCEPT ![h] = "panicked"]
    /\ UNCHANGED <<queue, n_senders, mu, hstate, is_last, buff, rpc, rlive,
                   sent, pushed, results, rdrop_at, poisoned>>

DropPoisoned(h) ==
    /\ Usable(h)
    /\ mu = Free
    /\ poisoned
    /\ pc' = [pc EXCEPT ![h] = "panicked"]
    /\ UNCHANGED <<queue, n_senders, mu, hstate, is_last, buff, rpc, rlive,
                   sent, pushed, results, rdrop_at, poisoned>>

\* self.shared.mu.lock().unwrap() of recv on a poisoned mutex.
RecvLockPoisoned ==
    /\ rpc = "recv_lock"
    /\ mu = Free
    /\ poisoned
    /\ rpc' = "panicked"
    /\ UNCHANGED <<queue, n_senders, mu, hstate, pc, is_last, buff, rlive,
                   sent, pushed, results, rdrop_at, poisoned>>

\* self.shared.cond.wait(ctx).unwrap(): the wait returns Err when the mutex
\* it re-acquired is poisoned.
RecvWaitPoisoned ==
    /\ rpc = "woken"
    /\ mu = Free
    /\ poisoned
    /\ rpc' = "panicked"
    /\ UNCHANGED <<queue, n_senders, mu, hstate, pc, is_last, buff, rlive,
                   sent, pushed, results, rdrop_at, poisoned>>

PoisonNext ==
    \/ Next
    \/ \E h \in Handles : CloneIncOverflow(h)
    \/ \E h \in Handles : SendPoisoned(h)
    \/ \E h \in Handles : ClonePoisoned(h)
    \/ \E h \in Handles : DropPoisoned(h)
    \/ RecvLockPoisoned
    \/ RecvWaitPoisoned

\* The channel with panics: every behaviour of Spec, and those in which a
\* clone panics inside its critical section.
PoisonSpec == Init /\ [][PoisonNext]_vars

\* -------------------------------------------------------------- fairness
\* Threads are OS threads: one that is inside an operation and can take its
\* next statement eventually takes it.  Nothing obliges a caller to start
\* an operation (the lock steps of send, clone and drop, RecvFast, RecvSlow,
\* DropReceiver), and nothing obliges a wait to wake up spuriously.
SenderStep(h) ==
    \/ SendPush(h) \/ SendUnlock(h) \/ SendNotify(h)
    \/ CloneInc(h) \/ CloneUnlock(h) \/ CloneRet(h)
    \/ DropDec(h) \/ DropUnlock(h) \/ DropNotify(h)

ReceiverStep ==
    RecvLock \/ RecvNone \/ RecvWait \/ RecvSome \/ RecvReacquire

FairSpec ==
    /\ Spec
    /\ \A h \in Handles : WF_vars(SenderStep(h))
    /\ WF_vars(ReceiverStep)

\* ---------------------------------------------------------- observations
Range(s) == {s[i] : i \in DOMAIN s}
Count(m, s) == Cardinality({i \in DOMAIN s : s[i] = m})

\* The values the recv calls returned (the Some results), in call order.
Returned == SelectSeq(results, LAMBDA r : r # None)

\* Every value the channel has seen or handed out.
Seen == Range(pushed) \cup Range(Returned) \cup Range(buff) \cup Range(queue)

\* The consumer is inside the slow path of a recv call.
InRecv == rpc \in {"recv_lock", "recv_loop", "wait", "woken"}

\* Every Sender handle that was ever created has completed its drop.
AllDropped == \A h \in Handles : hstate[h] # "live"
ClosedDrained == AllDropped /\ queue = <<>> /\ buff = <<>>

\* No clone and no drop is between its call and its return.
NoCloneOrDropRunning ==
    \A h \in Handles :
        pc[h] \notin (ClonePcs \cup {"drop_dec", "drop_unlock", "drop_notify"})

LiveHandles == {h \in Handles : hstate[h] = "live"}

\* ------------------------------------------------------------------- C1
\* C1: FIFO per producer.  Of two values sent through the same handle, the
\* one sent first is returned by recv first: in the sequence of returned
\* values, values of one handle appear in increasing send number.
PerProducerFifo ==
    \A i, j \in 1..Len(Returned) :
        (i < j /\ Returned[i][1] = Returned[j][1])
            => Returned[i][2] < Returned[j][2]

\* Two values of one handle were returned around a value of another handle.
PerProducerFifoWitness ==
    /\ Len(Returned) >= 3
    /\ Returned[1][1] = Returned[3][1]
    /\ Returned[1][1] # Returned[2][1]

\* ------------------------------------------------------------------- C2
\* C2 as stated: in every reachable state the values returned, the values
\* in the local buffer and the values in the shared queue are together
\* exactly the values pushed, each as often as it was pushed.
MultisetAsStated ==
    \A m \in Seen :
        Count(m, Returned) + Count(m, buff) + Count(m, queue) = Count(m, pushed)

\* C2, amended: the equation holds in every reachable state in which the
\* Receiver has not been dropped (dropping it discards the local buffer);
\* and once a recv has returned None, the values returned are exactly the
\* values pushed, each as often as it was pushed.
MultisetPreserved ==
    /\ rlive => MultisetAsStated
    /\ (\E i \in DOMAIN results : results[i] = None)
          => \A m \in Seen : Count(m, Returned) = Count(m, pushed)

\* Every send of the run was delivered and then recv returned None.
MultisetPreservedWitness ==
    /\ Len(pushed) = MaxSends
    /\ Len(Returned) = MaxSends
    /\ Len(results) = MaxSends + 1
    /\ Last(results) = None

\* ------------------------------------------------------------------- C3
\* C3: closure terminality.  Once every Sender handle has been dropped and
\* the shared queue and the local buffer are empty, that stays so, the
\* consumer never goes into the wait, every recv result from then on is
\* None, and a recv call in progress returns.
ClosureTerminal ==
    /\ [][ClosedDrained =>
            /\ ClosedDrained'
            /\ rpc' # "wait"
            /\ (results' # results => Last(results') = None)]_vars
    /\ (ClosedDrained /\ InRecv) ~> (ClosedDrained /\ rpc = "idle")

\* recv returned None and, called again, returned None again.
ClosureTerminalWitness ==
    /\ Len(results) >= 3
    /\ results[Len(results) - 2] # None
    /\ results[Len(results) - 1] = None
    /\ results[Len(results)] = None

\* ------------------------------------------------------------------- C4
\* C4: recv returns None only from a state in which n_senders is 0 and the
\* shared queue and the local buffer are empty; by then every value pushed
\* has been returned, in push order.
NoPrematureEnd ==
    [][(results' # results /\ Last(results') = None) =>
          /\ n_senders = 0
          /\ queue = <<>>
          /\ buff = <<>>
          /\ Returned = pushed]_vars

\* The close_sending test: one value, the only Sender dropped, Some, None.
NoPrematureEndWitness ==
    /\ Len(results) = 2
    /\ results[1] = Msg(1, 1)
    /\ results[2] = None
    /\ Len(pushed) = 1

PostClosureStable == [][n_senders = 0 => n_senders' = 0]_vars

\* The channel is closed and the consumer goes on operating on it.
PostClosureStableWitness ==
    /\ n_senders = 0
    /\ AllDropped
    /\ rpc = "recv_loop"
    /\ results # <<>>

\* ------------------------------------------------------------------- C7
\* C7: wake on closure.  A consumer that is in the wait when n_senders is 0
\* eventually returns from recv, and a recv that returns with n_senders 0
\* and the shared queue empty returns None.
WakeOnClosure ==
    /\ (rpc = "wait" /\ n_senders = 0) ~> (rpc = "idle")
    /\ [][(InRecv /\ n_senders = 0 /\ queue = <<>> /\ rpc' = "idle")
            => Last(results') = None]_vars

\* The consumer waits, the last drop has decremented and not yet notified.
WakeOnClosureWitness ==
    /\ rpc = "wait"
    /\ n_senders = 0
    /\ \E h \in Handles : pc[h] = "drop_notify"

\* ------------------------------------------------------------------- C8
\* C8: wake on data.  A consumer inside recv (taking the lock, in the loop,
\* in the wait or woken) while the shared queue is non-empty eventually
\* returns from that recv, and returns Some.
WakeOnData ==
    /\ (InRecv /\ queue # <<>>) ~> (rpc = "idle")
    /\ [][(InRecv /\ queue # <<>> /\ rpc' = "idle")
            => Last(results') # None]_vars

\* The consumer waits, a send has pushed and unlocked and not yet notified.
WakeOnDataWitness ==
    /\ rpc = "wait"
    /\ queue # <<>>
    /\ \E h \in Handles : pc[h] = "send_notify"

\* ------------------------------------------------------------------- C9
\* C9: global order.  The sequence of values returned by recv is a prefix
\* of the sequence of values in push (lock acquisition) order.
GlobalOrder ==
    /\ Len(Returned) <= Len(pushed)
    /\ \A i \in 1..Len(Returned) : Returned[i] = pushed[i]

\* A value was returned, a value of another handle was batch-moved into the
\* local buffer, and a later value sits in the shared queue.
GlobalOrderWitness ==
    /\ Returned # <<>>
    /\ buff # <<>>
    /\ queue # <<>>
    /\ Head(buff)[1] # Returned[1][1]

\* ------------------------------------------------------------------ C10
\* C10: dropping the Receiver changes nothing the Senders see (n_senders,
\* the shared queue, the mutex, the handles), and a send that runs with the
\* Receiver dropped completes.
SendAfterReceiverDropped ==
    /\ [][(rlive /\ ~rlive') =>
            /\ n_senders' = n_senders
            /\ queue' = queue
            /\ mu' = mu
            /\ hstate' = hstate
            /\ pc' = pc]_vars
    /\ \A h \in Handles :
          (~rlive /\ pc[h] \in {"send_push", "send_unlock", "send_notify"})
              ~> (pc[h] = "idle")

\* A value was pushed after the Receiver was dropped, and its send is over.
SendAfterReceiverDroppedWitness ==
    /\ ~rlive
    /\ Len(pushed) > rdrop_at
    /\ \A h \in Handles : pc[h] = "idle"
    /\ \E h \in Handles : hstate[h] = "live"

\* ------------------------------------------------------------------ C11
\* A thread of handle h is inside the critical section of an operation.
InCS(h) ==
    pc[h] \in {"send_push", "send_unlock", "clone_inc", "clone_unlock",
               "drop_dec", "drop_unlock"}

\* C11: producers never block on the consumer.  A send, clone or drop in
\* progress can always take its next statement, whatever the consumer is
\* doing; a handle at rest can start any of them as soon as the mutex is
\* free (within the bounds on sends and handles); every holder releases the
\* mutex; and every operation in progress reaches its return.
ProducersNeverBlock ==
    /\ [](\A h \in Handles : pc[h] # "idle" => ENABLED SenderStep(h))
    /\ [](\A h \in Handles : (Usable(h) /\ mu = Free) =>
            /\ ENABLED DropLock(h)
            /\ SendsStarted < MaxSends => ENABLED SendLock(h)
            /\ HandlesClaimed < MaxHandles => ENABLED CloneLock(h))
    /\ (mu # Free) ~> (mu = Free)
    /\ \A h \in Handles : (pc[h] # "idle") ~> (pc[h] = "idle")

\* A send has pushed and unlocked while nobody waits on the condition
\* variable: the Receiver is gone or the consumer is not inside recv.
ProducersNeverBlockWitness ==
    /\ rpc = "idle"
    /\ Len(queue) = MaxSends
    /\ \E h \in Handles : pc[h] = "send_notify"

\* ------------------------------------------------------------------ C12
\* C12: once the mutex is poisoned, no operation that starts completes
\* normally: no recv returns a result, and a send, clone or drop that is
\* started panics.
PoisonIsFatal ==
    [][poisoned =>
          /\ results' = results
          /\ \A h \in Handles :
                (pc[h] = "idle" /\ pc'[h] # "idle") => pc'[h] = "panicked"]_vars

\* ------------------------------------------------------------------ C13
\* C13: mutual exclusion.  The mutex is held by the thread of handle h
\* exactly when that thread is inside a critical section, and by the
\* consumer exactly when it is in its locked loop, so at most one thread is
\* inside; the shared queue and n_senders change only in a step taken by
\* the holder; and the local buffer changes only in a step of the consumer.
MutualExclusion ==
    /\ [](\A h \in Handles : InCS(h) <=> mu = SenderThread(h))
    /\ [](rpc = "recv_loop" <=> mu = RecvThread)
    /\ [](Cardinality({h \in Handles : InCS(h)})
            + (IF rpc = "recv_loop" THEN 1 ELSE 0) <= 1)
    /\ [][(queue' # queue \/ n_senders' # n_senders) =>
            \/ mu = RecvThread /\ rpc' # rpc /\ pc' = pc
            \/ \E h \in Handles :
                  /\ mu = SenderThread(h)
                  /\ pc'[h] # pc[h]
                  /\ rpc' = rpc
                  /\ \A g \in Handles \ {h} : pc'[g] = pc[g]]_vars
    /\ [][buff' # buff => pc' = pc]_vars

\* A producer is inside its critical section while the woken consumer
\* stands in front of the mutex.
MutualExclusionWitness ==
    /\ rpc = "woken"
    /\ \E h \in Handles : pc[h] = "send_push"

\* ------------------------------------------------------------------ C14
\* C14: batch transfer.  The step in which recv, holding the mutex, finds
\* the shared queue non-empty returns its head, leaves the shared queue
\* empty and the local buffer equal to the rest of the queue, in order
\* (empty when there is no rest), and releases the mutex.
BatchTransfer ==
    [][(rpc = "recv_loop" /\ queue # <<>> /\ rpc' # rpc) =>
          /\ results' = Append(results, Head(queue))
          /\ queue' = <<>>
          /\ buff' = Tail(queue)
          /\ mu = RecvThread
          /\ mu' = Free]_vars

\* One recv has returned and moved two values into the local buffer.
BatchTransferWitness ==
    /\ Len(results) = 1
    /\ Len(buff) = 2
    /\ queue = <<>>
    /\ rpc = "idle"

\* ------------------------------------------------------------------ C15
\* C15: fast path frame.  With the local buffer non-empty a recv call can
\* return at once, whoever holds the mutex; the step returns the head of
\* the buffer, removes exactly that element and leaves the shared queue,
\* n_senders, the mutex and every thread's position unchanged.
FastPathFrame ==
    /\ []((CanRecv /\ buff # <<>>) => ENABLED RecvFast)
    /\ [][(rpc = "idle" /\ buff # <<>> /\ results' # results) =>
            /\ results' = Append(results, Head(buff))
            /\ buff' = Tail(buff)
            /\ UNCHANGED <<queue, n_senders, mu, rpc, pc, hstate>>]_vars

\* A second recv has returned from the buffer, which still holds a value,
\* and a producer holds the mutex.
FastPathFrameWitness ==
    /\ mu # Free
    /\ buff # <<>>
    /\ Len(results) >= 2
    /\ rpc = "idle"

\* ------------------------------------------------------------------ C16
\* The queue of a reference receiver without a local buffer.
RefQueue == buff \o queue

\* C16: batching is invisible.  With RefQueue = buff \o queue, every step
\* of a producer or of recv is a step of the reference channel: it leaves
\* RefQueue and the results alone, or appends the pushed value to RefQueue,
\* or removes the head of RefQueue and returns it, or returns None with
\* RefQueue empty and n_senders = 0; and the consumer goes into the wait
\* only where the reference receiver would, with RefQueue empty and
\* n_senders not 0.  (Dropping the Receiver is no such step.)
BatchingInvisible ==
    /\ [][\/ rlive /\ ~rlive'
          \/ RefQueue' = RefQueue /\ results' = results
          \/ \E h \in Handles :
                /\ mu = SenderThread(h)
                /\ RefQueue' = Append(RefQueue, Msg(h, sent[h] + 1))
                /\ results' = results
          \/ /\ RefQueue # <<>>
             /\ RefQueue' = Tail(RefQueue)
             /\ results' = Append(results, Head(RefQueue))
          \/ /\ RefQueue = <<>>
             /\ n_senders = 0
             /\ RefQueue' = RefQueue
             /\ results' = Append(results, None)]_vars
    /\ [][(rpc' = "wait" /\ rpc # "wait") =>
            (RefQueue = <<>> /\ n_senders # 0)]_vars

\* Two values were returned, the second from the buffer, a third is in it.
BatchingInvisibleWitness ==
    /\ Len(Returned) = 2
    /\ buff # <<>>
    /\ queue = <<>>
    /\ rlive

\* ------------------------------------------------------------------ C17
\* C17: the consumer goes into the wait only from its locked loop, holding
\* the mutex, with the shared queue empty and n_senders > 0, and that step
\* releases the mutex; it leaves the wait only woken, and from woken it
\* goes only back into the locked loop, taking the free mutex, where the
\* queue and the count are tested again.
WaitDiscipline ==
    /\ [][(rpc' = "wait" /\ rpc # "wait") =>
            /\ rpc = "recv_loop"
            /\ mu = RecvThread
            /\ queue = <<>>
            /\ n_senders > 0
            /\ mu' = Free]_vars
    /\ [][(rpc = "wait" /\ rpc' # "wait") => rpc' = "woken"]_vars
    /\ [][(rpc = "woken" /\ rpc' # "woken") =>
            /\ rpc' = "recv_loop"
            /\ mu = Free
            /\ mu' = RecvThread]_vars
    /\ [][(rpc = "recv_loop" /\ rpc' = "idle") =>
            /\ mu = RecvThread
            /\ \/ queue # <<>> /\ Last(results') = Head(queue)
               \/ queue = <<>> /\ n_senders = 0 /\ Last(results') = None]_vars

\* The consumer waits and a producer holds the mutex the wait released.
WaitDisciplineWitness ==
    /\ rpc = "wait"
    /\ mu # Free

\* ------------------------------------------------------------------ C18
\* C18 as stated: when the consumer is in the wait and the shared queue is
\* non-empty or n_senders is 0, some producer has released the lock in send
\* or in the last drop and has not yet executed its notify_one.
NoLostWakeupAsStated ==
    (rpc = "wait" /\ (queue # <<>> \/ n_senders = 0)) =>
        \E h \in Handles : pc[h] \in {"send_notify", "drop_notify"}

\* C18, amended: when the consumer is in the wait and the shared queue is
\* non-empty or n_senders is 0, some producer is past its push in send, or
\* past its decrement to 0 in the last drop, and has not yet executed its
\* notify_one; it may still hold the lock.
NoLostWakeup ==
    (rpc = "wait" /\ (queue # <<>> \/ n_senders = 0)) =>
        \E h \in Handles :
            \/ pc[h] \in {"send_unlock", "send_notify"}
            \/ pc[h] \in {"drop_unlock", "drop_notify"} /\ is_last[h]

\* The consumer waits while the last drop is about to notify it.
NoLostWakeupWitness ==
    /\ rpc = "wait"
    /\ n_senders = 0
    /\ queue = <<>>
    /\ \E h \in Handles : pc[h] = "drop_notify" /\ is_last[h]
    /\ results # <<>>

\* ------------------------------------------------------------------ C19
\* The place of a pushed value in the push order.
PushIndex(m) == CHOOSE k \in DOMAIN pushed : pushed[k] = m

\* C19: whenever the consumer is on the slow path of recv (in front of the
\* mutex, holding it, or in the wait) the local buffer is empty, so the swap
\* moves nothing back into the shared queue; and every value in the local
\* buffer was pushed before every value in the shared queue.
SwapInvariant ==
    /\ InRecv => buff = <<>>
    /\ \A i \in DOMAIN buff : \A j \in DOMAIN queue :
          PushIndex(buff[i]) < PushIndex(queue[j])

\* recv holds the mutex in front of a swap, after an earlier result.
SwapInvariantWitness ==
    /\ rpc = "recv_loop"
    /\ Len(queue) >= 2
    /\ results # <<>>

\* ------------------------------------------------------------------ C20
\* C20: lock discipline.  The mutex is free exactly when no thread is
\* inside a critical section; an operation that returns does not hold it;
\* and while some Sender handle is live, some thread that is inside an
\* operation, or a drop of a handle at rest, can take a step.
LockDiscipline ==
    /\ [](mu = Free <=>
            ((\A h \in Handles : ~InCS(h)) /\ rpc # "recv_loop"))
    /\ [][(rpc # "idle" /\ rpc' = "idle") => mu' # RecvThread]_vars
    /\ [][\A h \in Handles :
            (pc[h] # "idle" /\ pc'[h] = "idle") => mu' # SenderThread(h)]_vars
    /\ []((\E h \in Handles : hstate[h] = "live") =>
            \/ ENABLED ReceiverStep
            \/ \E h \in Handles : ENABLED (SenderStep(h) \/ DropLock(h)))

\* Operations of every kind have returned and the mutex is free.
LockDisciplineWitness ==
    /\ mu = Free
    /\ rpc = "idle"
    /\ \A h \in Handles : pc[h] = "idle"
    /\ \E h \in Handles : hstate[h] = "live"
    /\ \E h \in Handles : hstate[h] = "dropped"
    /\ Len(results) >= 2

====
